---- MODULE Spec2Model ----
(***************************************************************************)
(* Model of the Action Cable mocks of cypress-action-cable                 *)
(* (src/src/mocks/MockActionCable.ts).  The file holds three               *)
(* implementations, told apart here by the variable impl:                  *)
(*   "ms"  - MockActionCableConsumer on mock-socket      (lines 285-674)   *)
(*   "ws"  - MockActionCableConsumer on MockWebSocket    (lines 12-238)    *)
(*   "acm" - ActionCableMock                             (lines 709-1020)  *)
(* The transport of both consumers is modelled after MockWebSocket         *)
(* (lines 1024-1165).                                                      *)
(*                                                                         *)
(* Time.  Everything runs on one event loop.  A pending setTimeout is an   *)
(* entry of the queue timers with the time it still has to wait (left).    *)
(* The queue is kept in firing order: by due time, and for equal due times *)
(* by registration.  Elapse lets time pass, never beyond the next timer;   *)
(* a timer fires when it is at the head of the queue and due.  Calls made  *)
(* by the test may happen at any instant the model visits.                 *)
(*                                                                         *)
(* Callbacks.  A subscription carries, per event, the number of callback   *)
(* functions registered for it.  What one step did to the outside world    *)
(* (callbacks invoked, envelopes written to the transport, an exception    *)
(* thrown to the caller) is recorded in ev.                                *)
(***************************************************************************)
EXTENDS Integers, Sequences, FiniteSets, TLC

\* ---------------------------------------------------------------- bounds
MaxRecs == 2
MaxSocks == 2
MaxOps == 4
MaxCallbacks == 2
Granularity == 2
MaxConsumers == 3
\* the messages of one conversation
MaxMessages == 2

\* ------------------------------------------------------ program constants
ConfirmDelay == 10
ConfirmDelayWS == 50
ConnectionDelayWS == 0
OpenDelay == 0
CloseDelay == 0

\* ----------------------------------------------------------------- inputs
Name(n) == [tag |-> "name", name |-> n, fields |-> <<>>]
Obj(f) == [tag |-> "obj", name |-> "", fields |-> f]
ChannelArgs == {Name("Chat"), Name("Notif")}
ChannelArgsOne == {Name("Chat")}
Payloads == {"hi"}
\* payloads as JSON values: a string, and the falsy 0, false, "" and null
PayloadsFalsy == {"hi", "0", "false", "", "null"}
Actions == {"speak"}
Durations == {10}
\* ConversationMessage: direction, channel, data, delay; a delay of 0 is the
\* delay left out
ConversationMessages ==
  [direction : {"incoming", "outgoing"}, channel : ChannelArgsOne, data : Payloads, delay : {0, 10}]
\* the lists a test hands to simulateConversation
Conversations == UNION {[1..n -> ConversationMessages] : n \in 0..MaxMessages}
\* the reconnect option of simulateNetworkInterruption as the test writes it;
\* "undefined" is the option left out
ReconnectArgs == {"true", "false", "undefined"}
OptionArgs == {[messageHistory |-> TRUE, subscriptionDelay |-> 0, connectionDelay |-> 0, packetLoss |-> 0, latency |-> 0],
               [messageHistory |-> FALSE, subscriptionDelay |-> 5, connectionDelay |-> 0, packetLoss |-> 0, latency |-> 0]}
AllCallbacks == [connected |-> 1, disconnected |-> 1, received |-> 1, rejected |-> 1, throws |-> FALSE, unsubs |-> ""]
NoCallbacks == [connected |-> 0, disconnected |-> 0, received |-> 0, rejected |-> 0, throws |-> FALSE, unsubs |-> ""]
ThrowingCallbacks == [connected |-> 1, disconnected |-> 1, received |-> 1, rejected |-> 1, throws |-> TRUE, unsubs |-> ""]
\* callbacks whose disconnected function calls this.unsubscribe()
UnsubscribingCallbacks == [connected |-> 1, disconnected |-> 1, received |-> 1, rejected |-> 1, throws |-> FALSE,
                           unsubs |-> "disconnected"]
CallbackArgs == {AllCallbacks}
CallbackArgsSnapshot == {AllCallbacks, UnsubscribingCallbacks}
CallbackArgsACM == {AllCallbacks, NoCallbacks}
CallbackArgsRouting == {AllCallbacks, ThrowingCallbacks}
ChannelArgsRouting == {Name("Chat"),
                       Obj(<<<<"channel", "Chat">>, <<"room", "1">>>>),
                       Obj(<<<<"room", "1">>, <<"channel", "Chat">>>>)}
LossRates == {0, 50, 100}
OptionArgsLoss == {[messageHistory |-> TRUE, subscriptionDelay |-> 0, connectionDelay |-> 0, packetLoss |-> p, latency |-> 0] :
                     p \in LossRates}
\* networkSimulation with a fixed latency, or none, and no packet loss
OptionArgsLatency == {[messageHistory |-> TRUE, subscriptionDelay |-> 0, connectionDelay |-> 0, packetLoss |-> 0,
                       latency |-> l] : l \in {0, 10}}
Urls == {"ws://localhost:3000/cable", "ws://localhost:4000/cable"}
\* Math.random(): a number from 0 up to but not including 1, in hundredths
RandomDraws == {0, 50, 99}

VARIABLES
  impl,                \* which implementation the test instantiated
  options,             \* this.options of the consumer
  websocket,           \* this.websocket: 0 (null) or a socket
  readyState,          \* readyState of every socket
  isConnected,         \* this.isConnected (this.connected of ActionCableMock)
  messageHistory,      \* this.messageHistory (this.sentMessages of ActionCableMock)
  interruptionTimeout, \* this.interruptionTimeout is set
  subscriptions,       \* registry: the subscription objects, in order
  recs,                \* every subscription object ever created
  timers,              \* pending setTimeout calls, in firing order
  nops,                \* number of calls the test has made
  ev,                  \* what the last step did
  created,             \* every consumer object made since mocking began
  consumers,           \* MockActionCable.consumers: the consumer kept for each url, or 0
  actionCableConsumer  \* win._actionCableConsumer: a consumer, or 0

\* what mocking keeps track of beyond the one consumer under test
registry == <<created, consumers, actionCableConsumer>>

vars == <<impl, options, websocket, readyState, isConnected, messageHistory,
          interruptionTimeout, subscriptions, recs, timers, nops, ev,
          created, consumers, actionCableConsumer>>

\* ---------------------------------------------------------------- helpers
Range(s) == {s[i] : i \in 1..Len(s)}

\* ev: op is the operation, rec the record it was about, ident the identifier
\* routed, calls the callbacks invoked in order, sent the envelopes written to
\* the transport, threw whether the caller got an exception, became whether the
\* record's connected flag became true, mark whether the step reconnects after
\* an interruption of a connected consumer that no call of the test has followed,
\* text the text the transport delivered, miss whether the record the call was
\* about was not in the registry, signal whether the step dispatched the
\* document event actioncable:message:unhandled, ret what the call returned
\* ("undefined" when it returns nothing), hist the array getMessageHistory
\* returned, off whether the test's last call of connect() or disconnect() was
\* disconnect() (kept from step to step), arg the option the step's function
\* closed over, resolved whether the step resolved the promise of
\* simulateConversation
NoEv == [op |-> "init", rec |-> 0, ident |-> <<>>, calls |-> <<>>, sent |-> <<>>,
         threw |-> FALSE, became |-> FALSE, mark |-> FALSE, text |-> <<>>, miss |-> FALSE,
         signal |-> FALSE, ret |-> "undefined", hist |-> <<>>, off |-> FALSE, arg |-> "",
         resolved |-> FALSE]

Event(op, r, calls, sent, threw) ==
  [op |-> op, rec |-> r, ident |-> <<>>, calls |-> calls, sent |-> sent,
   threw |-> threw, became |-> FALSE, mark |-> FALSE, text |-> <<>>, miss |-> FALSE,
   signal |-> FALSE, ret |-> "undefined", hist |-> <<>>, off |-> ev.off, arg |-> "",
   resolved |-> FALSE]

\* the invocation of a callback of record r: n is the place of the function
\* among those registered for the event (Call is the first of them)
Call(r, cb) == [rec |-> r, cb |-> cb, n |-> 1]

\* a forEach that runs from the last function to the first
CallsOfReversed(rs, r, cb) ==
  [i \in 1..rs[r].callbacks[cb] |-> [Call(r, cb) EXCEPT !.n = rs[r].callbacks[cb] + 1 - i]]

\* callbacks[cb].forEach: the functions of one event of record r, each invoked
\* once, in the order they were pushed
CallsOf(rs, r, cb) ==
  [i \in 1..rs[r].callbacks[cb] |-> [Call(r, cb) EXCEPT !.n = i]]

\* a setTimeout entry: kind names the function, left is the time to wait, dur
\* the delay asked for; sock, rec, flag, ident, data, msgs are what the function
\* closes over; seq is the number of the test's call that registered it and
\* was whether the consumer was connected at that call
Timer(kind, left) == [kind |-> kind, left |-> left, dur |-> left, sock |-> 0, rec |-> 0,
                      flag |-> FALSE, ident |-> <<>>, data |-> "", seq |-> 0, was |-> FALSE, msgs |-> <<>>]

\* setTimeout: the queue is kept in the order in which the timers will fire
RECURSIVE SetTimeout(_, _)
SetTimeout(tq, t) ==
  IF tq = <<>> THEN <<t>>
  ELSE IF Head(tq).left <= t.left THEN <<Head(tq)>> \o SetTimeout(Tail(tq), t)
  ELSE <<t>> \o tq

\* JSON.stringify of an object: its key/value pairs in insertion order
JSONStringify(fields) == fields

\* typeof channel === 'string' ? JSON.stringify({ channel }) : JSON.stringify(channel)
Identifier(channel) ==
  IF channel.tag = "name" THEN JSONStringify(<<<<"channel", channel.name>>>>)
  ELSE JSONStringify(channel.fields)

ConnectionChannel == JSONStringify(<<<<"channel", "ConnectionChannel">>>>)

Envelope(command, identifier, data) == [command |-> command, identifier |-> identifier, data |-> data]

\* JSON.stringify of a value: a text that parses back to the value
JSONText(value) == <<"json", value>>

\* JSON.parse(text): the value, or the SyntaxError it throws
JSONParse(text) ==
  IF text[1] = "json" THEN [ok |-> TRUE, value |-> text[2]]
  ELSE [ok |-> FALSE, value |-> [type |-> "SyntaxError", identifier |-> <<>>, message |-> ""]]

\* a message of the server; a field the message lacks is "" (type, message)
\* or <<>> (identifier)
Message(type, identifier, message) == [type |-> type, identifier |-> identifier, message |-> message]

\* { type: 'pong', message: message.message }
Pong(message) == [type |-> "pong", message |-> message]

\* the texts the transport delivers: a ping, a data message, and a text that is not JSON
Malformed == <<"text", "{oops">>
\* the server refuses the subscription to a channel
InboundTextsReject == {JSONText(Message("reject_subscription", Identifier(Name("Chat")), ""))}
InboundTexts == {JSONText(Message("ping", <<>>, "hi")),
                 JSONText(Message("", Identifier(Name("Chat")), "hi")),
                 Malformed}

\* JavaScript truthiness of a payload
Truthy(payload) == payload \notin {"", "0", "false", "null"}

\* ------------------------------------------------ transport (MockWebSocket)
FreeSocks(rs) == {s \in 1..MaxSocks : rs[s] = "FREE"}

NewSock(rs) == CHOOSE s \in FreeSocks(rs) : \A t \in FreeSocks(rs) : s <= t

\* a closed socket that nothing refers to any more gives its slot back
Recycle(rs, w, tq) ==
  [s \in 1..MaxSocks |->
     IF rs[s] = "CLOSED" /\ s # w /\ ~\E i \in 1..Len(tq) : tq[i].sock = s
     THEN "FREE" ELSE rs[s]]

\* timers that will call connect()
PendingConnects(tq) ==
  Cardinality({i \in 1..Len(tq) : tq[i].kind = "autoConnect" \/ (tq[i].kind = "reconnect" /\ tq[i].flag)})

\* a socket can be had for every connect() to come, and for one more
SockLeft == Cardinality(FreeSocks(Recycle(readyState, 0, timers))) > PendingConnects(timers)

\* MockWebSocket.close: the timer it adds
CloseAdd(tq, rs, s) ==
  IF rs[s] \in {"OPEN", "CONNECTING"}
  THEN SetTimeout(tq, [Timer("sockClose", CloseDelay) EXCEPT !.sock = s]) ELSE tq

\* MockWebSocket.close: the readyState it leaves
CloseState(rs, s) ==
  IF rs[s] \in {"OPEN", "CONNECTING"} THEN [rs EXCEPT ![s] = "CLOSING"] ELSE rs

\* ------------------------------------------------------- consumer.send
CanSend(w, rs) == w # 0 /\ rs[w] = "OPEN"

\* a send that writes nothing
SentNothing(w, rs, data) == <<>>

\* the envelopes consumer.send writes to the transport
Sent(w, rs, data) == IF CanSend(w, rs) THEN <<data>> ELSE <<>>

\* a history that records every send
RecordedAlways(h, w, rs, data) == Append(h, [type |-> "outgoing", data |-> data])

\* the history after consumer.send
Recorded(h, w, rs, data) ==
  IF CanSend(w, rs) /\ options.messageHistory
  THEN Append(h, [type |-> "outgoing", data |-> data]) ELSE h

\* subscriptions.findByIdentifier(identifier): the first record with it, or 0
FindByIdentifier(subs, rs, identifier) ==
  LET hits == SelectSeq(subs, LAMBDA r : rs[r].identifier = identifier) IN
  IF hits = <<>> THEN 0 ELSE Head(hits)

\* perform without its guard
PerformThrowsNever(rec) == FALSE

\* perform refuses: if (!this.isSubscribed) throw
PerformThrows(rec) == ~rec.isSubscribed

\* consumer.handleIncomingMessage(message): the history after it
HistoryIncomingIfMatched(h, identifier, payload) ==
  IF options.messageHistory /\ FindByIdentifier(subscriptions, recs, identifier) # 0
  THEN Append(h, [type |-> "incoming", data |-> [identifier |-> identifier, message |-> payload]])
  ELSE h

\* handleIncomingMessage: the history after the message reached routing
HistoryIncoming(h, identifier, payload) ==
  IF options.messageHistory
  THEN Append(h, [type |-> "incoming", data |-> [identifier |-> identifier, message |-> payload]])
  ELSE h

\* consumer.handleIncomingMessage(message): the record it hands the message to, or 0
Routed(identifier, payload) ==
  LET subscription == FindByIdentifier(subscriptions, recs, identifier) IN
  IF subscription # 0 /\ Truthy(payload) THEN subscription ELSE 0

\* a callback of record r throws when invoked
Throws(rs, r, cb) == cb = "received" /\ rs[r].callbacks.received > 0 /\ rs[r].callbacks.throws

\* a drop that also takes the draw equal to the rate
DroppedAtRate(draw, packetLoss) == draw <= packetLoss

\* the packet is lost: Math.random() < packetLoss
Dropped(draw, packetLoss) == draw < packetLoss

\* the record a new subscription starts as
NewRecord(identifier, callbacks) ==
  [identifier |-> identifier, isSubscribed |-> FALSE, callbacks |-> callbacks]

\* --------------------------------------------------------------- Init
\* nothing has been created through the mocking entry points
InitRegistryEmpty ==
  /\ created = <<>>
  /\ consumers = [url \in Urls |-> 0]
  /\ actionCableConsumer = 0

InitFields ==
  /\ InitRegistryEmpty
  /\ websocket = 0
  /\ readyState = [s \in 1..MaxSocks |-> "FREE"]
  /\ isConnected = FALSE
  /\ messageHistory = <<>>
  /\ interruptionTimeout = FALSE
  /\ subscriptions = <<>>
  /\ recs = <<>>
  /\ timers = <<Timer("autoConnect", options.connectionDelay)>>
  /\ nops = 0
  /\ ev = NoEv

InitConsumer == options \in OptionArgs /\ InitFields

InitMS == impl = "ms" /\ InitConsumer

InitWS == impl = "ws" /\ InitConsumer /\ ~options.messageHistory

Init == InitMS \/ InitWS

\* ------------------------------------------------ calls made by the test
Api == nops < MaxOps

\* connect without its guard
ConnectReturnsNever(w, rs) == FALSE

\* connect returns at once: if (this.websocket?.readyState === WebSocket.OPEN) return
ConnectReturns(w, rs) == w # 0 /\ rs[w] = "OPEN"

\* consumer.connect(): tq is the queue it starts from, t the timer of the new socket
ConnectEffect(tq, t) ==
  IF ConnectReturns(websocket, readyState)
  THEN /\ UNCHANGED <<websocket, readyState>>
       /\ timers' = tq
  ELSE LET s == NewSock(Recycle(readyState, 0, tq)) IN
       /\ websocket' = s
       /\ readyState' = [Recycle(readyState, 0, tq) EXCEPT ![s] = "CONNECTING"]
       /\ timers' = SetTimeout(tq, [t EXCEPT !.sock = s])

\* consumer.connect() called by the test
Connect ==
  /\ impl \in {"ms", "ws"}
  /\ Api
  /\ SockLeft
  /\ ConnectEffect(timers, Timer("sockOpen", OpenDelay))
  /\ ev' = [Event("connect", 0, <<>>, <<>>, FALSE) EXCEPT !.off = FALSE]
  /\ nops' = nops + 1
  /\ UNCHANGED <<registry, impl, options, isConnected, messageHistory, interruptionTimeout, subscriptions, recs>>

\* consumer.disconnect()
Disconnect ==
  /\ impl \in {"ms", "ws"}
  /\ Api
  /\ IF websocket # 0
     THEN /\ timers' = CloseAdd(timers, readyState, websocket)
          /\ readyState' = Recycle(CloseState(readyState, websocket), 0, timers')
          /\ websocket' = 0
          /\ isConnected' = FALSE
     ELSE UNCHANGED <<timers, readyState, websocket, isConnected>>
  /\ ev' = [Event("disconnect", 0, <<>>, <<>>, FALSE) EXCEPT !.off = TRUE]
  /\ nops' = nops + 1
  /\ UNCHANGED <<registry, impl, options, messageHistory, interruptionTimeout, subscriptions, recs>>

\* consumer.subscriptions.create(channel, callbacks)
Create(channel, callbacks) ==
  /\ impl = "ms"
  /\ Api
  /\ Len(recs) < MaxRecs
  /\ LET r == Len(recs) + 1 IN
     /\ recs' = Append(recs, NewRecord(Identifier(channel), callbacks))
     /\ subscriptions' = Append(subscriptions, r)
     /\ timers' = SetTimeout(timers, [Timer("subscribe", options.subscriptionDelay) EXCEPT !.rec = r])
     /\ ev' = Event("create", r, <<>>, <<>>, FALSE)
  /\ nops' = nops + 1
  /\ UNCHANGED <<registry, impl, options, websocket, readyState, isConnected, messageHistory, interruptionTimeout>>

\* subscription.unsubscribe(): what it does to record r
UnsubscribeEffect(r, op) ==
  IF ~recs[r].isSubscribed
  THEN /\ UNCHANGED <<recs, messageHistory>>
       /\ ev' = Event(op, r, <<>>, <<>>, FALSE)
  ELSE LET data == Envelope("unsubscribe", recs[r].identifier, "") IN
       /\ messageHistory' = Recorded(messageHistory, websocket, readyState, data)
       /\ recs' = [recs EXCEPT ![r].isSubscribed = FALSE]
       /\ ev' = Event(op, r, CallsOf(recs, r, "disconnected"), Sent(websocket, readyState, data), FALSE)

\* subscription.unsubscribe() called by the test
Unsubscribe(r) ==
  /\ impl = "ms"
  /\ Api
  /\ r \in 1..Len(recs)
  /\ UnsubscribeEffect(r, "unsubscribe")
  /\ nops' = nops + 1
  /\ UNCHANGED <<registry, impl, options, websocket, readyState, isConnected, interruptionTimeout, subscriptions, timers>>

\* consumer.subscriptions.remove(subscription)
Remove(r) ==
  /\ impl = "ms"
  /\ Api
  /\ r \in 1..Len(recs)
  /\ IF r \in Range(subscriptions)
     THEN /\ subscriptions' = SelectSeq(subscriptions, LAMBDA x : x # r)
          /\ UnsubscribeEffect(r, "remove")
     ELSE /\ UNCHANGED <<subscriptions, recs, messageHistory>>
          /\ ev' = [Event("remove", r, <<>>, <<>>, FALSE) EXCEPT !.miss = TRUE]
  /\ nops' = nops + 1
  /\ UNCHANGED <<registry, impl, options, websocket, readyState, isConnected, interruptionTimeout, timers>>

\* subscription.perform(action, data)
Perform(r, action, payload) ==
  /\ impl = "ms"
  /\ Api
  /\ r \in 1..Len(recs)
  /\ IF PerformThrows(recs[r])
     THEN /\ ev' = Event("perform", r, <<>>, <<>>, TRUE)
          /\ UNCHANGED messageHistory
     ELSE LET data == Envelope("message", recs[r].identifier, <<action, payload>>) IN
          /\ messageHistory' = Recorded(messageHistory, websocket, readyState, data)
          /\ ev' = Event("perform", r, <<>>, Sent(websocket, readyState, data), FALSE)
  /\ nops' = nops + 1
  /\ UNCHANGED <<registry, impl, options, websocket, readyState, isConnected, interruptionTimeout, subscriptions, recs, timers>>

\* consumer.simulateIncomingMessage(channel, data)
\* a consumer that waits for half the latency only
LatencyHalved == options.latency \div 2

\* this.options.networkSimulation?.latency || 0
Latency == options.latency

\* the timer simulateIncomingMessage registers
IncomingMessage(channel, payload) ==
  [Timer("incoming", Latency) EXCEPT !.ident = Identifier(channel), !.data = payload]

SimulateIncomingMessage(channel, payload) ==
  /\ impl = "ms"
  /\ Api
  /\ timers' = SetTimeout(timers, [IncomingMessage(channel, payload) EXCEPT !.seq = nops + 1])
  /\ ev' = Event("simulateIncomingMessage", 0, <<>>, <<>>, FALSE)
  /\ nops' = nops + 1
  /\ UNCHANGED <<registry, impl, options, websocket, readyState, isConnected, messageHistory, interruptionTimeout, subscriptions, recs>>

\* consumer.sendToChannel(channel, data), which calls consumer.send
SendToChannel(channel, payload) ==
  /\ impl = "ms"
  /\ Api
  /\ LET data == Envelope("message", Identifier(channel), JSONText(payload)) IN
     /\ messageHistory' = Recorded(messageHistory, websocket, readyState, data)
     /\ ev' = [Event("sendToChannel", 0, <<>>, Sent(websocket, readyState, data), FALSE)
                 EXCEPT !.ident = Identifier(channel)]
  /\ nops' = nops + 1
  /\ UNCHANGED <<registry, impl, options, websocket, readyState, isConnected, interruptionTimeout, subscriptions, recs, timers>>

\* subscription.send(data) of the mock-socket variant, which calls consumer.send
SubscriptionSend(r, payload) ==
  /\ impl = "ms"
  /\ Api
  /\ r \in 1..Len(recs)
  /\ LET data == Envelope("message", recs[r].identifier, JSONText(payload)) IN
     /\ messageHistory' = Recorded(messageHistory, websocket, readyState, data)
     /\ ev' = Event("send", r, <<>>, Sent(websocket, readyState, data), FALSE)
  /\ nops' = nops + 1
  /\ UNCHANGED <<registry, impl, options, websocket, readyState, isConnected, interruptionTimeout, subscriptions, recs, timers>>

\* an accessor that hands out the log itself
ReturnedItself(h) == [copy |-> FALSE, value |-> h]

\* return [...this.messageHistory]: a new array with the entries of the log
Returned(h) == [copy |-> TRUE, value |-> h]

\* what a test pushes onto an array it was given
Scribble == [type |-> "scribble", data |-> ""]

\* consumer.getMessageHistory(), after which the test pushes an entry onto
\* the array it got
GetMessageHistory ==
  /\ impl = "ms"
  /\ Api
  /\ LET returned == Returned(messageHistory) IN
     /\ ev' = [Event("getMessageHistory", 0, <<>>, <<>>, FALSE) EXCEPT !.hist = returned.value]
     /\ messageHistory' = IF returned.copy THEN messageHistory ELSE Append(messageHistory, Scribble)
  /\ nops' = nops + 1
  /\ UNCHANGED <<registry, impl, options, websocket, readyState, isConnected, interruptionTimeout, subscriptions, recs, timers>>

\* consumer.clearMessageHistory()
ClearMessageHistory ==
  /\ impl = "ms"
  /\ Api
  /\ messageHistory' = <<>>
  /\ ev' = Event("clearMessageHistory", 0, <<>>, <<>>, FALSE)
  /\ nops' = nops + 1
  /\ UNCHANGED <<registry, impl, options, websocket, readyState, isConnected, interruptionTimeout, subscriptions, recs, timers>>

\* consumer.connected = true: connected has a getter and no setter, so the
\* assignment does nothing in sloppy code and throws a TypeError in strict
\* code; which of the two depends on how the commands file is built
GetterAssignmentThrows == BOOLEAN

\* cy.forceActionCableConnection() on the consumer kept in win._actionCableConsumer:
\* consumer.connected = true; consumer.isConnected = true
ForceActionCableConnection ==
  /\ impl = "ms"
  /\ Api
  /\ \E strict \in GetterAssignmentThrows :
       /\ isConnected' = IF strict THEN isConnected ELSE TRUE
       /\ ev' = Event("forceActionCableConnection", 0, <<>>, <<>>, strict)
  /\ nops' = nops + 1
  /\ UNCHANGED <<registry, impl, options, websocket, readyState, messageHistory, interruptionTimeout,
                 subscriptions, recs, timers>>

\* cy.sendActionCableMessageImmediately(channel, data): consumer.connected = true,
\* then cy.sendToChannel, which calls consumer.sendToChannel
SendActionCableMessageImmediately(channel, payload) ==
  /\ impl = "ms"
  /\ Api
  /\ \E strict \in GetterAssignmentThrows :
       LET data == Envelope("message", Identifier(channel), JSONText(payload)) IN
       IF strict
       THEN /\ UNCHANGED messageHistory
            /\ ev' = [Event("sendActionCableMessageImmediately", 0, <<>>, <<>>, TRUE)
                        EXCEPT !.ident = Identifier(channel)]
       ELSE /\ messageHistory' = Recorded(messageHistory, websocket, readyState, data)
            /\ ev' = [Event("sendActionCableMessageImmediately", 0, <<>>,
                             Sent(websocket, readyState, data), FALSE)
                        EXCEPT !.ident = Identifier(channel)]
  /\ nops' = nops + 1
  /\ UNCHANGED <<registry, impl, options, websocket, readyState, isConnected, interruptionTimeout,
                 subscriptions, recs, timers>>

\* a handler without try/catch
HandlerCatchesNot == FALSE

\* handleMessage wraps its body in try { ... } catch (error) { console.error(...) }
HandlerCatches == TRUE

\* the transport delivers a text on socket s: the consumer's onmessage, which
\* calls handleMessage(event)
OnMessage(s, text) ==
  /\ impl = "ms"
  /\ Api
  /\ readyState[s] = "OPEN"
  /\ LET parsed == JSONParse(text)
         message == parsed.value
         subscription == Routed(message.identifier, message.message) IN
     IF ~parsed.ok
     THEN /\ UNCHANGED messageHistory
          /\ ev' = [Event("message", 0, <<>>, <<>>, ~HandlerCatches) EXCEPT !.text = text]
     ELSE IF message.type = "ping"
     THEN /\ messageHistory' = Recorded(messageHistory, websocket, readyState, Pong(message.message))
          /\ ev' = [Event("message", 0, <<>>, Sent(websocket, readyState, Pong(message.message)), FALSE)
                      EXCEPT !.text = text]
     ELSE IF message.identifier # <<>>
     THEN /\ messageHistory' = HistoryIncoming(messageHistory, message.identifier, message.message)
          /\ ev' = [Event("message", FindByIdentifier(subscriptions, recs, message.identifier),
                          IF subscription # 0 THEN CallsOf(recs, subscription, "received") ELSE <<>>,
                          <<>>,
                          subscription # 0 /\ Throws(recs, subscription, "received") /\ ~HandlerCatches)
                      EXCEPT !.text = text, !.ident = message.identifier]
     ELSE /\ UNCHANGED messageHistory
          /\ ev' = [Event("message", 0, <<>>, <<>>, FALSE) EXCEPT !.text = text]
  /\ nops' = nops + 1
  /\ UNCHANGED <<registry, impl, options, websocket, readyState, isConnected, interruptionTimeout, subscriptions, recs, timers>>

\* a timer that reconnects only when the option is true
ReconnectsWhenTrue(reconnect) == reconnect = "true"

\* options.reconnect !== false
Reconnects(reconnect) == reconnect # "false"

\* message.delay || 100
DelayOf(message) == IF message.delay = 0 THEN 100 ELSE message.delay

\* sendNextMessage() of simulateConversation: the queue after it, with the
\* timer of the next message if there is one
SendNextMessage(tq, messages) ==
  IF messages = <<>> THEN tq
  ELSE SetTimeout(tq, [Timer("conversation", DelayOf(Head(messages))) EXCEPT !.msgs = messages])

\* a conversation is under way: its promise is not resolved yet
Conversing == \E i \in 1..Len(timers) : timers[i].kind = "conversation"

\* consumer.simulateConversation(messages): the promise is resolved at once
\* when there is no message; cy.simulateConversation hands the promise to the
\* command chain, which starts the next conversation only after it has resolved
SimulateConversation(messages) ==
  /\ impl = "ms"
  /\ Api
  /\ ~Conversing
  /\ timers' = SendNextMessage(timers, messages)
  /\ ev' = [Event("simulateConversation", 0, <<>>, <<>>, FALSE) EXCEPT !.resolved = messages = <<>>]
  /\ nops' = nops + 1
  /\ UNCHANGED <<registry, impl, options, websocket, readyState, isConnected, messageHistory, interruptionTimeout,
                 subscriptions, recs>>

\* clearTimeout(this.interruptionTimeout)
ClearTimeout(tq, handle) ==
  IF handle THEN SelectSeq(tq, LAMBDA t : t.kind # "reconnect") ELSE tq

\* consumer.simulateNetworkInterruption({duration, reconnect})
SimulateNetworkInterruption(duration, reconnect) ==
  /\ impl = "ms"
  /\ Api
  /\ SockLeft
  /\ IF websocket = 0
     THEN UNCHANGED <<timers, readyState, isConnected, interruptionTimeout>>
     ELSE /\ timers' = SetTimeout(CloseAdd(ClearTimeout(timers, interruptionTimeout), readyState, websocket),
                                  [Timer("reconnect", duration) EXCEPT !.flag = Reconnects(reconnect),
                                     !.data = reconnect, !.seq = nops + 1, !.was = isConnected])
          /\ readyState' = CloseState(readyState, websocket)
          /\ isConnected' = FALSE
          /\ interruptionTimeout' = TRUE
  /\ ev' = Event("simulateNetworkInterruption", 0, <<>>, <<>>, FALSE)
  /\ nops' = nops + 1
  /\ UNCHANGED <<registry, impl, options, websocket, messageHistory, subscriptions, recs>>

\* ------------------------------------------------------------- timers
\* the timer at the head of the queue is due
Due == timers # <<>> /\ Head(timers).left = 0

\* setTimeout(() => this.connect(), this.options.connectionDelay)
AutoConnectTimer ==
  /\ Due
  /\ Head(timers).kind = "autoConnect"
  /\ ConnectEffect(Tail(timers), Timer("sockOpen", OpenDelay))
  /\ ev' = Event("autoConnect", 0, <<>>, <<>>, FALSE)
  /\ UNCHANGED <<registry, impl, options, isConnected, messageHistory, interruptionTimeout, subscriptions, recs, nops>>

\* MockWebSocket.simulateOpen and the consumer's onopen
SocketOpen ==
  /\ Due
  /\ Head(timers).kind = "sockOpen"
  /\ LET t == Head(timers)
         rs == [readyState EXCEPT ![t.sock] = "OPEN"]
         data == Envelope("subscribe", ConnectionChannel, "") IN
     /\ readyState' = rs
     /\ isConnected' = TRUE
     /\ messageHistory' = Recorded(messageHistory, websocket, rs, data)
     /\ ev' = [Event("open", 0, <<>>, Sent(websocket, rs, data), FALSE)
                 EXCEPT !.mark = t.was /\ t.flag /\ t.seq = nops]
  /\ timers' = Tail(timers)
  /\ UNCHANGED <<registry, impl, options, websocket, interruptionTimeout, subscriptions, recs, nops>>

\* MockWebSocket.simulateClose and the consumer's onclose
SocketClose ==
  /\ Due
  /\ Head(timers).kind = "sockClose"
  /\ timers' = Tail(timers)
  /\ readyState' = Recycle([readyState EXCEPT ![Head(timers).sock] = "CLOSED"], websocket, timers')
  /\ isConnected' = FALSE
  /\ ev' = Event("close", 0, <<>>, <<>>, FALSE)
  /\ UNCHANGED <<registry, impl, options, websocket, messageHistory, interruptionTimeout, subscriptions, recs, nops>>

\* subscription.subscribe(), called by the timer of create
SubscribeTimer ==
  /\ Due
  /\ Head(timers).kind = "subscribe"
  /\ LET r == Head(timers).rec
         data == Envelope("subscribe", recs[r].identifier, "") IN
     IF recs[r].isSubscribed
     THEN /\ timers' = Tail(timers)
          /\ ev' = Event("subscribe", r, <<>>, <<>>, FALSE)
          /\ UNCHANGED <<recs, messageHistory>>
     ELSE /\ timers' = SetTimeout(Tail(timers), [Timer("confirm", ConfirmDelay) EXCEPT !.rec = r])
          /\ recs' = [recs EXCEPT ![r].isSubscribed = TRUE]
          /\ messageHistory' = Recorded(messageHistory, websocket, readyState, data)
          /\ ev' = [Event("subscribe", r, <<>>, Sent(websocket, readyState, data), FALSE) EXCEPT !.became = TRUE]
  /\ UNCHANGED <<registry, impl, options, websocket, readyState, isConnected, interruptionTimeout, subscriptions, nops>>

\* the timer of subscribe(): callbacks.connected()
ConfirmTimer ==
  /\ Due
  /\ Head(timers).kind = "confirm"
  /\ timers' = Tail(timers)
  /\ ev' = Event("confirm", Head(timers).rec, CallsOf(recs, Head(timers).rec, "connected"), <<>>, FALSE)
  /\ UNCHANGED <<registry, impl, options, websocket, readyState, isConnected, messageHistory, interruptionTimeout,
                 subscriptions, recs, nops>>

\* the timer of simulateIncomingMessage: the packet-loss draw, then
\* consumer.handleIncomingMessage(message); an exception of the received
\* callback leaves the timer uncaught
IncomingTimer ==
  /\ Due
  /\ Head(timers).kind = "incoming"
  /\ timers' = Tail(timers)
  /\ \E draw \in RandomDraws :
       LET t == Head(timers)
           subscription == Routed(t.ident, t.data) IN
       IF Dropped(draw, options.packetLoss)
       THEN /\ UNCHANGED messageHistory
            /\ ev' = [Event("drop", 0, <<>>, <<>>, FALSE) EXCEPT !.ident = t.ident]
       ELSE /\ messageHistory' = HistoryIncoming(messageHistory, t.ident, t.data)
            /\ ev' = [Event("route", FindByIdentifier(subscriptions, recs, t.ident),
                            IF subscription # 0 THEN CallsOf(recs, subscription, "received") ELSE <<>>,
                            <<>>, subscription # 0 /\ Throws(recs, subscription, "received"))
                        EXCEPT !.ident = t.ident]
  /\ UNCHANGED <<registry, impl, options, websocket, readyState, isConnected, interruptionTimeout, subscriptions, recs, nops>>

\* the timer of simulateConversation: simulateIncomingMessage or sendToChannel
\* of the message, then sendNextMessage(), which resolves the promise after
\* the last message
ConversationTimer ==
  /\ Due
  /\ Head(timers).kind = "conversation"
  /\ LET message == Head(Head(timers).msgs)
         rest == Tail(Head(timers).msgs)
         data == Envelope("message", Identifier(message.channel), JSONText(message.data)) IN
     /\ IF message.direction = "incoming"
        THEN /\ timers' = SendNextMessage(SetTimeout(Tail(timers), IncomingMessage(message.channel, message.data)), rest)
             /\ UNCHANGED messageHistory
        ELSE /\ timers' = SendNextMessage(Tail(timers), rest)
             /\ messageHistory' = Recorded(messageHistory, websocket, readyState, data)
     /\ ev' = [Event("conversation", 0, <<>>,
                     IF message.direction = "incoming" THEN <<>> ELSE Sent(websocket, readyState, data), FALSE)
                 EXCEPT !.ident = Identifier(message.channel), !.arg = message.direction, !.resolved = rest = <<>>]
  /\ UNCHANGED <<registry, impl, options, websocket, readyState, isConnected, interruptionTimeout, subscriptions, recs, nops>>

\* the timer of simulateNetworkInterruption
ReconnectTimer ==
  /\ Due
  /\ Head(timers).kind = "reconnect"
  /\ LET t == Head(timers) IN
     /\ IF Reconnects(t.data)
        THEN ConnectEffect(Tail(timers), [Timer("sockOpen", OpenDelay) EXCEPT !.flag = t.flag, !.seq = t.seq, !.was = t.was])
        ELSE /\ timers' = Tail(timers)
             /\ UNCHANGED <<websocket, readyState>>
     /\ ev' = [Event("reconnect", 0, <<>>, <<>>, FALSE) EXCEPT !.arg = t.data]
  /\ UNCHANGED <<registry, impl, options, isConnected, messageHistory, interruptionTimeout, subscriptions, recs, nops>>

\* the time the event loop lets pass in one go: a step, or less when a timer is due earlier
Step == ConfirmDelay \div Granularity

\* time passes, never beyond the next timer
Elapse ==
  /\ timers # <<>>
  /\ Head(timers).left > 0
  /\ LET d == IF Head(timers).left < Step THEN Head(timers).left ELSE Step IN
     timers' = [i \in 1..Len(timers) |-> [timers[i] EXCEPT !.left = @ - d]]
  /\ ev' = Event("elapse", 0, <<>>, <<>>, FALSE)
  /\ UNCHANGED <<registry, impl, options, websocket, readyState, isConnected, messageHistory, interruptionTimeout,
                 subscriptions, recs, nops>>

\* ------------------------------------------- the MockWebSocket variant
\* subscriptions.create(channelName, callbacks) and the subscription's constructor
CreateWS(channel, callbacks) ==
  /\ impl = "ws"
  /\ Api
  /\ Len(recs) < MaxRecs
  /\ LET r == Len(recs) + 1 IN
     /\ recs' = Append(recs, NewRecord(Identifier(channel), callbacks))
     /\ subscriptions' = Append(subscriptions, r)
     /\ timers' = IF isConnected
                  THEN SetTimeout(timers, [Timer("subscribeWS", ConnectionDelayWS) EXCEPT !.rec = r])
                  ELSE timers
     /\ ev' = Event("create", r, <<>>, <<>>, FALSE)
  /\ nops' = nops + 1
  /\ UNCHANGED <<registry, impl, options, websocket, readyState, isConnected, messageHistory, interruptionTimeout>>

\* subscription.unsubscribe(): what it does to record r
UnsubscribeEffectWS(r, op) ==
  /\ recs' = [recs EXCEPT ![r].isSubscribed = FALSE]
  /\ ev' = Event(op, r, <<>>,
                 IF recs[r].isSubscribed
                 THEN Sent(websocket, readyState, Envelope("unsubscribe", recs[r].identifier, ""))
                 ELSE <<>>, FALSE)

\* subscription.unsubscribe() called by the test
UnsubscribeWS(r) ==
  /\ impl = "ws"
  /\ Api
  /\ r \in 1..Len(recs)
  /\ UnsubscribeEffectWS(r, "unsubscribe")
  /\ nops' = nops + 1
  /\ UNCHANGED <<registry, impl, options, websocket, readyState, isConnected, messageHistory, interruptionTimeout,
                 subscriptions, timers>>

\* subscriptions.remove(subscription)
RemoveWS(r) ==
  /\ impl = "ws"
  /\ Api
  /\ r \in 1..Len(recs)
  /\ IF r \in Range(subscriptions)
     THEN /\ UnsubscribeEffectWS(r, "remove")
          /\ subscriptions' = SelectSeq(subscriptions, LAMBDA x : x # r)
     ELSE /\ UNCHANGED <<subscriptions, recs>>
          /\ ev' = [Event("remove", r, <<>>, <<>>, FALSE) EXCEPT !.miss = TRUE]
  /\ nops' = nops + 1
  /\ UNCHANGED <<registry, impl, options, websocket, readyState, isConnected, messageHistory, interruptionTimeout, timers>>

\* subscription.perform(action, data)
PerformWS(r, action, payload) ==
  /\ impl = "ws"
  /\ Api
  /\ r \in 1..Len(recs)
  /\ ev' = Event("perform", r, <<>>,
                 IF recs[r].isSubscribed
                 THEN Sent(websocket, readyState, Envelope("message", recs[r].identifier, <<action, payload>>))
                 ELSE <<>>, FALSE)
  /\ nops' = nops + 1
  /\ UNCHANGED <<registry, impl, options, websocket, readyState, isConnected, messageHistory, interruptionTimeout,
                 subscriptions, recs, timers>>

\* subscription.send(data): if (this.connected) this.consumer.send(...)
SubscriptionSendWS(r, payload) ==
  /\ impl = "ws"
  /\ Api
  /\ r \in 1..Len(recs)
  /\ ev' = Event("send", r, <<>>,
                 IF recs[r].isSubscribed
                 THEN Sent(websocket, readyState, Envelope("message", recs[r].identifier, JSONText(payload)))
                 ELSE <<>>, FALSE)
  /\ nops' = nops + 1
  /\ UNCHANGED <<registry, impl, options, websocket, readyState, isConnected, messageHistory, interruptionTimeout,
                 subscriptions, recs, timers>>

\* the transport delivers a text on socket s: onmessage and handleMessage(event)
OnMessageWS(s, text) ==
  /\ impl = "ws"
  /\ Api
  /\ readyState[s] = "OPEN"
  /\ LET parsed == JSONParse(text)
         message == parsed.value
         subscription == Routed(message.identifier, message.message) IN
     IF ~parsed.ok
     THEN ev' = [Event("message", 0, <<>>, <<>>, ~HandlerCatches) EXCEPT !.text = text]
     ELSE IF message.type = "ping"
     THEN ev' = [Event("message", 0, <<>>, Sent(websocket, readyState, Pong(message.message)), FALSE)
                   EXCEPT !.text = text]
     ELSE IF message.identifier # <<>>
     THEN ev' = [Event("message", FindByIdentifier(subscriptions, recs, message.identifier),
                       IF subscription # 0 THEN CallsOf(recs, subscription, "received") ELSE <<>>,
                       <<>>,
                       subscription # 0 /\ Throws(recs, subscription, "received") /\ ~HandlerCatches)
                   EXCEPT !.text = text, !.ident = message.identifier]
     ELSE ev' = [Event("message", 0, <<>>, <<>>, FALSE) EXCEPT !.text = text]
  /\ nops' = nops + 1
  /\ UNCHANGED <<registry, impl, options, websocket, readyState, isConnected, messageHistory, interruptionTimeout,
                 subscriptions, recs, timers>>

\* subscription.subscribe(), called by the timer of the constructor
SubscribeTimerWS ==
  /\ Due
  /\ Head(timers).kind = "subscribeWS"
  /\ LET r == Head(timers).rec IN
     /\ timers' = SetTimeout(Tail(timers), [Timer("confirmWS", ConfirmDelayWS) EXCEPT !.rec = r])
     /\ ev' = Event("subscribe", r, <<>>,
                    Sent(websocket, readyState, Envelope("subscribe", recs[r].identifier, "")), FALSE)
  /\ UNCHANGED <<registry, impl, options, websocket, readyState, isConnected, messageHistory, interruptionTimeout,
                 subscriptions, recs, nops>>

\* the timer of subscribe(): this.connected = true; callbacks.connected()
ConfirmTimerWS ==
  /\ Due
  /\ Head(timers).kind = "confirmWS"
  /\ LET r == Head(timers).rec IN
     /\ timers' = Tail(timers)
     /\ recs' = [recs EXCEPT ![r].isSubscribed = TRUE]
     /\ ev' = [Event("confirm", r, CallsOf(recs, r, "connected"), <<>>, FALSE) EXCEPT !.became = TRUE]
  /\ UNCHANGED <<registry, impl, options, websocket, readyState, isConnected, messageHistory, interruptionTimeout,
                 subscriptions, nops>>

\* ------------------------------------------------------ ActionCableMock
\* typeof channelIdentifier === 'string' ? channelIdentifier : JSON.stringify(channelIdentifier)
IdentifierACM(channel) ==
  IF channel.tag = "name" THEN <<<<channel.name>>>> ELSE JSONStringify(channel.fields)

\* the state after the constructor, which calls connect()
InitACM ==
  /\ impl = "acm"
  /\ InitRegistryEmpty
  /\ options = [messageHistory |-> FALSE, subscriptionDelay |-> 0, connectionDelay |-> 0, packetLoss |-> 0, latency |-> 0]
  /\ websocket = 0
  /\ readyState = [s \in 1..MaxSocks |-> "FREE"]
  /\ isConnected = TRUE
  /\ messageHistory = <<>>
  /\ interruptionTimeout = FALSE
  /\ subscriptions = <<>>
  /\ recs = <<>>
  /\ timers = <<>>
  /\ nops = 0
  /\ ev = NoEv

\* _subscriptionsList.find(sub => sub.identifier === identifier): the record, or 0
ExistingSub(subs, rs, identifier) == FindByIdentifier(subs, rs, identifier)

\* subscription.connected(cb), .disconnected(cb), .received(cb): the callbacks after create
AddCallbacks(old, callbacks) ==
  [connected |-> old.connected + callbacks.connected,
   disconnected |-> old.disconnected + callbacks.disconnected,
   received |-> old.received + callbacks.received,
   rejected |-> old.rejected,
   throws |-> old.throws \/ callbacks.throws,
   unsubs |-> IF callbacks.unsubs # "" THEN callbacks.unsubs ELSE old.unsubs]

\* the callbacks create invokes at once, right after pushing them: connected
\* when connected, disconnected when not
ImmediateCalls(r, callbacks) ==
  LET old(cb) == IF r \in 1..Len(recs) THEN recs[r].callbacks[cb] ELSE 0
      pushed(cb) == [i \in 1..callbacks[cb] |-> [Call(r, cb) EXCEPT !.n = old(cb) + i]] IN
  (IF isConnected THEN pushed("connected") ELSE <<>>)
    \o (IF ~isConnected THEN pushed("disconnected") ELSE <<>>)

\* the functions of event cb of a record call this.unsubscribe()
Unsubscribes(callbacks, cb) == callbacks[cb] > 0 /\ callbacks.unsubs = cb

\* _subscriptionsList.splice(index, 1) for the first record with the identifier
SpliceOut(subs, rs, identifier) ==
  LET index == ExistingSub(subs, rs, identifier) IN SelectSeq(subs, LAMBDA x : x # index)

\* mock.subscriptions.create(channelIdentifier, callbacks), which calls mock.subscribe
CreateACM(channel, callbacks) ==
  /\ impl = "acm"
  /\ Api
  /\ LET identifier == IdentifierACM(channel)
         existingSub == ExistingSub(subscriptions, recs, identifier)
         r == IF existingSub # 0 THEN existingSub ELSE Len(recs) + 1 IN
     /\ existingSub = 0 => Len(recs) < MaxRecs
     /\ existingSub # 0 =>
          \A cb \in {"connected", "disconnected", "received"} :
             recs[existingSub].callbacks[cb] + callbacks[cb] <= MaxCallbacks
     /\ recs' = IF existingSub # 0
                THEN [recs EXCEPT ![r].callbacks = AddCallbacks(@, callbacks)]
                ELSE Append(recs, NewRecord(identifier, AddCallbacks(NoCallbacks, callbacks)))
     /\ LET list == IF existingSub # 0 THEN subscriptions ELSE Append(subscriptions, r) IN
        subscriptions' = IF Unsubscribes(callbacks, IF isConnected THEN "connected" ELSE "disconnected")
                         THEN SpliceOut(list, recs', identifier)
                         ELSE list
     /\ ev' = Event("create", r, ImmediateCalls(r, callbacks), <<>>, FALSE)
  /\ nops' = nops + 1
  /\ UNCHANGED <<registry, impl, options, websocket, readyState, isConnected, messageHistory, interruptionTimeout, timers>>

\* subscription.unsubscribe(): removes the first record of the list with the identifier
UnsubscribeACM(r) ==
  /\ impl = "acm"
  /\ Api
  /\ r \in 1..Len(recs)
  /\ subscriptions' = SpliceOut(subscriptions, recs, recs[r].identifier)
  /\ ev' = Event("unsubscribe", r, <<>>, <<>>, FALSE)
  /\ nops' = nops + 1
  /\ UNCHANGED <<registry, impl, options, websocket, readyState, isConnected, messageHistory, interruptionTimeout,
                 recs, timers>>

\* the callbacks of one event of every record of a list, in order
RECURSIVE CallsOfAll(_, _, _)
CallsOfAll(subs, rs, cb) ==
  IF subs = <<>> THEN <<>> ELSE CallsOf(rs, Head(subs), cb) \o CallsOfAll(Tail(subs), rs, cb)

\* handledCount: the callbacks of a dispatch that returned without throwing
HandledCount(calls) == Len(SelectSeq(calls, LAMBDA c : ~Throws(recs, c.rec, c.cb)))

\* a JavaScript boolean as the caller sees it
Bool(b) == IF b THEN "true" ELSE "false"

\* mock.simulateReceive(channelIdentifier, data): with no matching record it
\* dispatches actioncable:message:unhandled and returns false, otherwise it
\* returns handledCount > 0
SimulateReceive(channel, payload) ==
  /\ impl = "acm"
  /\ Api
  /\ LET identifier == IdentifierACM(channel)
         matching == SelectSeq(subscriptions, LAMBDA r : recs[r].identifier = identifier)
         calls == CallsOfAll(matching, recs, "received") IN
     /\ ev' = [Event("route", 0, calls, <<>>, FALSE)
                 EXCEPT !.ident = identifier,
                        !.signal = matching = <<>>,
                        !.ret = Bool(matching # <<>> /\ HandledCount(calls) > 0)]
     /\ subscriptions' = IF \E i \in 1..Len(matching) : Unsubscribes(recs[matching[i]].callbacks, "received")
                         THEN SpliceOut(subscriptions, recs, identifier)
                         ELSE subscriptions
  /\ nops' = nops + 1
  /\ UNCHANGED <<registry, impl, options, websocket, readyState, isConnected, messageHistory, interruptionTimeout,
                 recs, timers>>

\* this._subscriptionsList.forEach(subscription => callbacks[cb].forEach(...)):
\* the loop runs over the list itself.  k is the index it visits next, len the
\* length the list had when the loop began; an index the list no longer has
\* is passed over.  A function that unsubscribes splices the list under the loop.
RECURSIVE ForEachLive(_, _, _, _)
ForEachLive(subs, k, len, cb) ==
  IF k > len \/ k > Len(subs) THEN [calls |-> <<>>, subs |-> subs]
  ELSE LET r == subs[k]
           after == IF Unsubscribes(recs[r].callbacks, cb)
                    THEN SpliceOut(subs, recs, recs[r].identifier) ELSE subs
           rest == ForEachLive(after, k + 1, len, cb) IN
       [calls |-> CallsOf(recs, r, cb) \o rest.calls, subs |-> rest.subs]

\* mock.disconnect(): what it does
DisconnectEffectACM(op) ==
  LET loop == ForEachLive(subscriptions, 1, Len(subscriptions), "disconnected") IN
  /\ isConnected' = FALSE
  /\ subscriptions' = loop.subs
  /\ ev' = Event(op, 0, loop.calls, <<>>, FALSE)

\* mock.connect(): what it does
ConnectEffectACM(op, mark) ==
  LET loop == ForEachLive(subscriptions, 1, Len(subscriptions), "connected") IN
  /\ isConnected' = TRUE
  /\ subscriptions' = loop.subs
  /\ ev' = [Event(op, 0, loop.calls, <<>>, FALSE) EXCEPT !.mark = mark]

\* mock.disconnect() called by the test
DisconnectACM ==
  /\ impl = "acm"
  /\ Api
  /\ DisconnectEffectACM("disconnect")
  /\ nops' = nops + 1
  /\ UNCHANGED <<registry, impl, options, websocket, readyState, messageHistory, interruptionTimeout, recs, timers>>

\* mock.connect() called by the test
ConnectACM ==
  /\ impl = "acm"
  /\ Api
  /\ ConnectEffectACM("connect", FALSE)
  /\ nops' = nops + 1
  /\ UNCHANGED <<registry, impl, options, websocket, readyState, messageHistory, interruptionTimeout, recs, timers>>

\* mock.simulateNetworkInterruption(duration)
SimulateNetworkInterruptionACM(duration) ==
  /\ impl = "acm"
  /\ Api
  /\ DisconnectEffectACM("simulateNetworkInterruption")
  /\ timers' = SetTimeout(timers, [Timer("reconnectACM", duration) EXCEPT !.flag = TRUE,
                                     !.seq = nops + 1, !.was = isConnected])
  /\ nops' = nops + 1
  /\ UNCHANGED <<registry, impl, options, websocket, readyState, messageHistory, interruptionTimeout, recs>>

\* the timer of simulateNetworkInterruption: this.connect()
ReconnectTimerACM ==
  /\ Due
  /\ Head(timers).kind = "reconnectACM"
  /\ timers' = Tail(timers)
  /\ ConnectEffectACM("reconnect", Head(timers).was /\ Head(timers).seq = nops)
  /\ UNCHANGED <<registry, impl, options, websocket, readyState, messageHistory, interruptionTimeout, recs, nops>>

\* ------------------------------------- mocking set-up and tear-down
\* new MockActionCableConsumer(url, options): no transport yet, the timer of
\* the constructor will call connect()
NewConsumer(url) == [url |-> url, websocket |-> "none", isConnected |-> FALSE]

\* the calls and steps below leave the consumer under test alone
ConsumerUnchanged ==
  UNCHANGED <<impl, options, websocket, readyState, isConnected, messageHistory, interruptionTimeout,
              subscriptions, recs, timers>>

\* MockActionCable.createConsumer(url): this.consumers.set(url, consumer)
CreateConsumer(url) ==
  /\ impl = "mocking"
  /\ Api
  /\ Len(created) < MaxConsumers
  /\ created' = Append(created, NewConsumer(url))
  /\ consumers' = [consumers EXCEPT ![url] = Len(created) + 1]
  /\ ev' = Event("createConsumer", Len(created) + 1, <<>>, <<>>, FALSE)
  /\ nops' = nops + 1
  /\ UNCHANGED actionCableConsumer
  /\ ConsumerUnchanged

\* cy.createActionCableConsumer(url): createMockActionCable(url, options),
\* which only constructs the consumer
CreateActionCableConsumer(url) ==
  /\ impl = "mocking"
  /\ Api
  /\ Len(created) < MaxConsumers
  /\ created' = Append(created, NewConsumer(url))
  /\ ev' = Event("createActionCableConsumer", Len(created) + 1, <<>>, <<>>, FALSE)
  /\ nops' = nops + 1
  /\ UNCHANGED <<consumers, actionCableConsumer>>
  /\ ConsumerUnchanged

\* cy.mockActionCable(url): createMockActionCable and win._actionCableConsumer = consumer
MockActionCableCommand(url) ==
  /\ impl = "mocking"
  /\ Api
  /\ Len(created) < MaxConsumers
  /\ created' = Append(created, NewConsumer(url))
  /\ actionCableConsumer' = Len(created) + 1
  /\ ev' = Event("mockActionCable", Len(created) + 1, <<>>, <<>>, FALSE)
  /\ nops' = nops + 1
  /\ UNCHANGED consumers
  /\ ConsumerUnchanged

\* the timer of the constructor of consumer c: connect()
ConsumerConnects(c) ==
  /\ impl = "mocking"
  /\ c \in 1..Len(created)
  /\ created[c].websocket = "none"
  /\ created' = [created EXCEPT ![c].websocket = "CONNECTING"]
  /\ ev' = Event("autoConnect", c, <<>>, <<>>, FALSE)
  /\ UNCHANGED <<consumers, actionCableConsumer, nops>>
  /\ ConsumerUnchanged

\* the transport of consumer c opens: onopen sets isConnected
ConsumerOpens(c) ==
  /\ impl = "mocking"
  /\ c \in 1..Len(created)
  /\ created[c].websocket = "CONNECTING"
  /\ created' = [created EXCEPT ![c].websocket = "OPEN", ![c].isConnected = TRUE]
  /\ ev' = Event("open", c, <<>>, <<>>, FALSE)
  /\ UNCHANGED <<consumers, actionCableConsumer, nops>>
  /\ ConsumerUnchanged

\* consumer.disconnect() on each consumer of the set cs
Disconnected(cs) ==
  [c \in 1..Len(created) |->
     IF c \in cs /\ created[c].websocket # "none"
     THEN [created[c] EXCEPT !.websocket = "none", !.isConnected = FALSE]
     ELSE created[c]]

\* MockActionCable.disconnectAll(): consumers.forEach(c => c.disconnect()); consumers.clear()
DisconnectAll ==
  /\ impl = "mocking"
  /\ Api
  /\ created' = Disconnected({consumers[url] : url \in Urls})
  /\ consumers' = [url \in Urls |-> 0]
  /\ ev' = Event("disconnectAll", 0, <<>>, <<>>, FALSE)
  /\ nops' = nops + 1
  /\ UNCHANGED actionCableConsumer
  /\ ConsumerUnchanged

\* cy.disconnectActionCable(): disconnects win._actionCableConsumer and deletes it
DisconnectActionCable ==
  /\ impl = "mocking"
  /\ Api
  /\ created' = Disconnected({actionCableConsumer})
  /\ actionCableConsumer' = 0
  /\ ev' = Event("disconnectActionCable", 0, <<>>, <<>>, FALSE)
  /\ nops' = nops + 1
  /\ UNCHANGED consumers
  /\ ConsumerUnchanged

\* the state when mocking begins: no consumer yet
InitMocking ==
  /\ impl = "mocking"
  /\ options = [messageHistory |-> FALSE, subscriptionDelay |-> 0, connectionDelay |-> 0, packetLoss |-> 0, latency |-> 0]
  /\ websocket = 0
  /\ readyState = [s \in 1..MaxSocks |-> "FREE"]
  /\ isConnected = FALSE
  /\ messageHistory = <<>>
  /\ interruptionTimeout = FALSE
  /\ subscriptions = <<>>
  /\ recs = <<>>
  /\ timers = <<>>
  /\ nops = 0
  /\ ev = NoEv
  /\ InitRegistryEmpty

\* ---------------------------------------------------- specifications
NextMS ==
  \/ \E channel \in ChannelArgs, callbacks \in CallbackArgs : Create(channel, callbacks)
  \/ \E r \in 1..MaxRecs : Unsubscribe(r)
  \/ \E r \in 1..MaxRecs : Remove(r)
  \/ \E r \in 1..MaxRecs, action \in Actions, payload \in Payloads : Perform(r, action, payload)
  \/ \E channel \in ChannelArgs, payload \in Payloads : SimulateIncomingMessage(channel, payload)
  \/ \E duration \in Durations, reconnect \in ReconnectArgs : SimulateNetworkInterruption(duration, reconnect)
  \/ SubscribeTimer
  \/ ConfirmTimer
  \/ IncomingTimer
  \/ ReconnectTimer

NextWS ==
  \/ \E channel \in ChannelArgs, callbacks \in CallbackArgs : CreateWS(channel, callbacks)
  \/ \E r \in 1..MaxRecs : UnsubscribeWS(r)
  \/ \E r \in 1..MaxRecs : RemoveWS(r)
  \/ \E r \in 1..MaxRecs, action \in Actions, payload \in Payloads : PerformWS(r, action, payload)
  \/ SubscribeTimerWS
  \/ ConfirmTimerWS

NextTransport ==
  \/ Connect
  \/ Disconnect
  \/ AutoConnectTimer
  \/ SocketOpen
  \/ SocketClose

Next == NextMS \/ NextWS \/ NextTransport \/ Elapse

\* the two consumers
Spec == Init /\ [][Next]_vars

\* the subscription lifecycle of the two consumers, on one channel: the calls
\* and timers that change what perform and remove read (the record's flag,
\* the registry, the transport, the history)
NextLifecycle ==
  \/ \E channel \in ChannelArgsOne, callbacks \in CallbackArgs : Create(channel, callbacks)
  \/ \E r \in 1..MaxRecs : Unsubscribe(r)
  \/ \E r \in 1..MaxRecs : Remove(r)
  \/ \E r \in 1..MaxRecs, action \in Actions, payload \in Payloads : Perform(r, action, payload)
  \/ SubscribeTimer
  \/ ConfirmTimer
  \/ \E channel \in ChannelArgsOne, callbacks \in CallbackArgs : CreateWS(channel, callbacks)
  \/ \E r \in 1..MaxRecs : UnsubscribeWS(r)
  \/ \E r \in 1..MaxRecs : RemoveWS(r)
  \/ \E r \in 1..MaxRecs, action \in Actions, payload \in Payloads : PerformWS(r, action, payload)
  \/ SubscribeTimerWS
  \/ ConfirmTimerWS
  \/ NextTransport
  \/ Elapse

SpecLifecycle == Init /\ [][NextLifecycle]_vars

\* the mock-socket consumer routing injected messages: channels given as
\* objects and callbacks that throw
NextRouting ==
  \/ \E channel \in ChannelArgsRouting, callbacks \in CallbackArgsRouting : Create(channel, callbacks)
  \/ \E channel \in ChannelArgsRouting, payload \in Payloads : SimulateIncomingMessage(channel, payload)
  \/ SubscribeTimer
  \/ ConfirmTimer
  \/ IncomingTimer
  \/ AutoConnectTimer
  \/ SocketOpen
  \/ Elapse

SpecRouting == InitMS /\ [][NextRouting]_vars

\* the mock-socket consumer injecting messages under packet loss
InitLoss == impl = "ms" /\ options \in OptionArgsLoss /\ InitFields

NextLoss ==
  \/ \E channel \in ChannelArgs, callbacks \in CallbackArgs : Create(channel, callbacks)
  \/ \E channel \in ChannelArgs, payload \in Payloads : SimulateIncomingMessage(channel, payload)
  \/ SubscribeTimer
  \/ ConfirmTimer
  \/ IncomingTimer
  \/ AutoConnectTimer
  \/ SocketOpen
  \/ Elapse

SpecLoss == InitLoss /\ [][NextLoss]_vars

\* the two consumers on the wire, on one channel: connecting, sending to the
\* channel, and the texts the transport delivers
NextWire ==
  \/ \E channel \in ChannelArgsOne, callbacks \in CallbackArgs : Create(channel, callbacks)
  \/ \E channel \in ChannelArgsOne, callbacks \in CallbackArgs : CreateWS(channel, callbacks)
  \/ \E channel \in ChannelArgsOne, payload \in Payloads : SendToChannel(channel, payload)
  \/ \E s \in 1..MaxSocks, text \in InboundTexts : OnMessage(s, text)
  \/ \E s \in 1..MaxSocks, text \in InboundTexts : OnMessageWS(s, text)
  \/ SubscribeTimer
  \/ ConfirmTimer
  \/ SubscribeTimerWS
  \/ ConfirmTimerWS
  \/ NextTransport
  \/ Elapse

SpecWire == Init /\ [][NextWire]_vars

NextACM ==
  \/ \E channel \in ChannelArgs, callbacks \in CallbackArgsACM : CreateACM(channel, callbacks)
  \/ \E r \in 1..MaxRecs : UnsubscribeACM(r)
  \/ \E channel \in ChannelArgs, payload \in Payloads : SimulateReceive(channel, payload)
  \/ DisconnectACM
  \/ ConnectACM
  \/ \E duration \in Durations : SimulateNetworkInterruptionACM(duration)
  \/ ReconnectTimerACM
  \/ Elapse

\* ActionCableMock
SpecACM == InitACM /\ [][NextACM]_vars

\* ActionCableMock with callbacks that unsubscribe their own record while a
\* dispatch is under way
NextSnapshot ==
  \/ \E channel \in ChannelArgs, callbacks \in CallbackArgsSnapshot : CreateACM(channel, callbacks)
  \/ \E channel \in ChannelArgs, payload \in Payloads : SimulateReceive(channel, payload)
  \/ DisconnectACM
  \/ ConnectACM

SpecSnapshot == InitACM /\ [][NextSnapshot]_vars

\* the mock-socket consumer and its message history: sends, injected
\* messages, reading the history and clearing it
NextHistory ==
  \/ \E channel \in ChannelArgsOne, payload \in Payloads : SendToChannel(channel, payload)
  \/ \E channel \in ChannelArgsOne, payload \in Payloads : SimulateIncomingMessage(channel, payload)
  \/ GetMessageHistory
  \/ ClearMessageHistory
  \/ IncomingTimer
  \/ AutoConnectTimer
  \/ SocketOpen

SpecHistory == InitMS /\ [][NextHistory]_vars

\* the subscriptions of the two consumers, on one channel: subscription.send,
\* unsubscribe, and a server that refuses the subscription
NextSubscription ==
  \/ \E channel \in ChannelArgsOne, callbacks \in CallbackArgs : Create(channel, callbacks)
  \/ \E channel \in ChannelArgsOne, callbacks \in CallbackArgs : CreateWS(channel, callbacks)
  \/ \E r \in 1..MaxRecs, payload \in Payloads : SubscriptionSend(r, payload)
  \/ \E r \in 1..MaxRecs, payload \in Payloads : SubscriptionSendWS(r, payload)
  \/ \E r \in 1..MaxRecs : Unsubscribe(r)
  \/ \E r \in 1..MaxRecs : UnsubscribeWS(r)
  \/ \E s \in 1..MaxSocks, text \in InboundTextsReject : OnMessage(s, text)
  \/ \E s \in 1..MaxSocks, text \in InboundTextsReject : OnMessageWS(s, text)
  \/ SubscribeTimer
  \/ ConfirmTimer
  \/ SubscribeTimerWS
  \/ ConfirmTimerWS
  \/ AutoConnectTimer
  \/ SocketOpen
  \/ Elapse

SpecSubscription == Init /\ [][NextSubscription]_vars

\* the mock-socket consumer creating and removing subscriptions while it
\* connects and disconnects.  The event loop runs every timer
\* that is due and lets time pass: the timer steps are weakly fair; the calls
\* of the test are not.
NextConfirm ==
  \/ \E channel \in ChannelArgs, callbacks \in CallbackArgs : Create(channel, callbacks)
  \/ \E r \in 1..MaxRecs : Remove(r)
  \/ SubscribeTimer
  \/ ConfirmTimer
  \/ NextTransport
  \/ Elapse

SpecConfirm ==
  /\ InitMS
  /\ [][NextConfirm]_vars
  /\ WF_vars(AutoConnectTimer)
  /\ WF_vars(SocketOpen)
  /\ WF_vars(SocketClose)
  /\ WF_vars(SubscribeTimer)
  /\ WF_vars(ConfirmTimer)
  /\ WF_vars(Elapse)

\* the entry points of mocking: several consumers made and torn down
NextMocking ==
  \/ \E url \in Urls : CreateConsumer(url)
  \/ \E url \in Urls : CreateActionCableConsumer(url)
  \/ \E url \in Urls : MockActionCableCommand(url)
  \/ \E c \in 1..MaxConsumers : ConsumerConnects(c)
  \/ \E c \in 1..MaxConsumers : ConsumerOpens(c)
  \/ DisconnectAll
  \/ DisconnectActionCable

SpecMocking == InitMocking /\ [][NextMocking]_vars

\* the mock-socket consumer driven by the commands that do not wait for the
\* connection
NextForce ==
  \/ ForceActionCableConnection
  \/ \E channel \in ChannelArgsOne, payload \in Payloads : SendActionCableMessageImmediately(channel, payload)
  \/ \E channel \in ChannelArgsOne, payload \in Payloads : SendToChannel(channel, payload)
  \/ NextTransport

SpecForce == InitMS /\ [][NextForce]_vars

\* an interruption of the mock-socket consumer and the timer it leaves, with
\* the reconnect option true, false or left out
NextInterruption ==
  \/ \E duration \in Durations, reconnect \in ReconnectArgs : SimulateNetworkInterruption(duration, reconnect)
  \/ ReconnectTimer
  \/ NextTransport
  \/ Elapse

SpecInterruption == InitMS /\ [][NextInterruption]_vars

\* a conversation played to a subscriber of the mock-socket consumer
NextConversation ==
  \/ \E channel \in ChannelArgsOne, callbacks \in CallbackArgs : Create(channel, callbacks)
  \/ \E messages \in Conversations : SimulateConversation(messages)
  \/ ConversationTimer
  \/ IncomingTimer
  \/ SubscribeTimer
  \/ ConfirmTimer
  \/ AutoConnectTimer
  \/ SocketOpen
  \/ Elapse

SpecConversation == InitMS /\ [][NextConversation]_vars

\* messages injected into a mock-socket consumer with a fixed latency and no
\* packet loss
InitLatency == impl = "ms" /\ options \in OptionArgsLatency /\ InitFields

NextLatency ==
  \/ \E channel \in ChannelArgsOne, callbacks \in CallbackArgs : Create(channel, callbacks)
  \/ \E channel \in ChannelArgsOne, payload \in Payloads : SimulateIncomingMessage(channel, payload)
  \/ IncomingTimer
  \/ SubscribeTimer
  \/ ConfirmTimer
  \/ AutoConnectTimer
  \/ SocketOpen
  \/ Elapse

SpecLatency == InitLatency /\ [][NextLatency]_vars

\* truthy and falsy payloads injected into a mock-socket consumer
NextFalsy ==
  \/ \E channel \in ChannelArgsOne, callbacks \in CallbackArgs : Create(channel, callbacks)
  \/ \E channel \in ChannelArgsOne, payload \in PayloadsFalsy : SimulateIncomingMessage(channel, payload)
  \/ IncomingTimer
  \/ SubscribeTimer
  \/ ConfirmTimer
  \/ AutoConnectTimer
  \/ SocketOpen
  \/ Elapse

SpecFalsy == InitMS /\ [][NextFalsy]_vars

\* the history of the mock-socket consumer, with the option on or off and
\* with or without packet loss: what is sent, injected and delivered by the
\* transport, connected or not
InitRecord == impl = "ms" /\ options \in OptionArgs \cup OptionArgsLoss /\ InitFields

NextRecord ==
  \/ \E channel \in ChannelArgsOne, callbacks \in CallbackArgs : Create(channel, callbacks)
  \/ \E channel \in ChannelArgsOne, payload \in Payloads : SendToChannel(channel, payload)
  \/ \E channel \in ChannelArgsOne, payload \in Payloads : SimulateIncomingMessage(channel, payload)
  \/ \E s \in 1..MaxSocks, text \in InboundTexts : OnMessage(s, text)
  \/ IncomingTimer
  \/ SubscribeTimer
  \/ ConfirmTimer
  \/ NextTransport
  \/ Elapse

SpecRecord == InitRecord /\ [][NextRecord]_vars

\* ------------------------------------------------------------ claims
\* the records whose received callback the step invoked
Receivers(e) == {e.calls[i].rec : i \in {j \in 1..Len(e.calls) : e.calls[j].cb = "received"}}

\* the registered records with an identifier
Matching(identifier) == {r \in Range(subscriptions) : recs[r].identifier = identifier}

\* a timer of some kind is pending for record r
Pending(tq, kind, r) == \E i \in 1..Len(tq) : tq[i].kind = kind /\ tq[i].rec = r

\* record r is subscribed and its confirmation delay has passed
Confirmed(r) == recs[r].isSubscribed /\ ~Pending(timers, "confirm", r) /\ ~Pending(timers, "confirmWS", r)

\* record r was subscribed and has been unsubscribed since
Unsubscribed(r) == ~recs[r].isSubscribed /\ ~Pending(timers, "subscribe", r)

\* the step is the call op of the test
Called(ops) == nops' = nops + 1 /\ ev'.op \in ops

\* the timers that will reconnect after an interruption
ReconnectTimers == {i \in 1..Len(timers) : timers[i].kind \in {"reconnect", "reconnectACM"}}

\* C1: routing an inbound data message invokes the received callback of every
\* registered record whose identifier equals the message's, not only the first
C1_RoutesToAllMatching ==
  ev.op = "route" => Matching(ev.ident) \subseteq Receivers(ev)

\* C2: an injected message reaches every matching record that is confirmed, and
\* no record that is not subscribed (not yet, or unsubscribed but still registered)
C2_RoutesToConfirmedOnly ==
  ev.op = "route" =>
    /\ \A r \in Matching(ev.ident) : Confirmed(r) => r \in Receivers(ev)
    /\ \A r \in Receivers(ev) : recs[r].isSubscribed

\* C3: every create call appends a new record to the registry and returns it,
\* also when a record with the same identifier is registered already
C3_CreateAppends ==
  [][Called({"create"}) =>
       /\ ev'.rec \notin Range(subscriptions)
       /\ subscriptions' = Append(subscriptions, ev'.rec)]_vars

\* C4: of two records subscribed to one identifier, unsubscribing or removing
\* one leaves the other registered and unchanged and sends exactly one
\* unsubscribe envelope (the transport being open), and the other receives
\* every later message for the identifier
C4_SiblingUnaffected ==
  /\ [][\A r, o \in Range(subscriptions) :
          ( /\ Called({"remove", "unsubscribe"})
            /\ ev'.rec = r
            /\ r # o
            /\ recs[r].identifier = recs[o].identifier
            /\ recs[r].isSubscribed
            /\ recs[o].isSubscribed )
          => /\ o \in Range(subscriptions')
             /\ recs'[o] = recs[o]
             /\ (CanSend(websocket, readyState) =>
                   ev'.sent = <<Envelope("unsubscribe", recs[r].identifier, "")>>)]_vars
  /\ [](ev.op = "route" =>
          \A o \in Matching(ev.ident) :
            (Confirmed(o) /\ \E r \in 1..Len(recs) :
                               r # o /\ recs[r].identifier = ev.ident /\ Unsubscribed(r))
            => o \in Receivers(ev))

C6_InterruptionWindow ==
  /\ \A i \in ReconnectTimers :
       ( /\ timers[i].flag
         /\ timers[i].was
         /\ timers[i].seq = nops
         /\ 0 < timers[i].left
         /\ timers[i].left < timers[i].dur )
       => ~isConnected
  /\ (ev.op \in {"open", "reconnect"} /\ ev.mark) => isConnected

\* C7: at most one interruption reconnect timer is pending at any time
C7_OneReconnectTimer == Cardinality(ReconnectTimers) <= 1

\* C8: once a record is removed no timer of it acts any more: no subscribe
\* envelope is sent for it and its connected callback is not invoked
C8_RemovalCancelsTimers ==
  (ev.op \in {"subscribe", "confirm"} /\ ev.rec \notin Range(subscriptions))
    => (ev.sent = <<>> /\ ev.calls = <<>>)

\* C9: when a connected consumer loses the connection (disconnect or network
\* interruption) every registered record gets its connected flag cleared and
\* its disconnected callbacks invoked, and no record leaves the registry
C9_DropDisconnectsAll ==
  [][(Called({"disconnect", "simulateNetworkInterruption"}) /\ isConnected) =>
       /\ subscriptions' = subscriptions
       /\ \A r \in Range(subscriptions) :
            /\ ~recs'[r].isSubscribed
            /\ recs[r].isSubscribed => Call(r, "disconnected") \in Range(ev'.calls)]_vars

\* C10: a record's connected flag becomes true, and its connected callback is
\* invoked, only while the consumer is connected
C10_ConfirmOnlyWhileConnected ==
  (ev.op \in {"subscribe", "confirm"} /\ (ev.became \/ ev.calls # <<>>)) => isConnected

\* C11: when the transport opens again after an interruption with reconnect, a
\* subscribe envelope is sent again for every record still registered
C11_ResubscribeOnReconnect ==
  (ev.op = "open" /\ ev.mark) =>
    \A r \in Range(subscriptions) : Envelope("subscribe", recs[r].identifier, "") \in Range(ev.sent)

\* C12: an exception thrown by a received callback does not leave the routing
\* operation, the connection state is unchanged, and every other record with
\* the message's identifier still gets the message
C12_CallbackIsolation ==
  [][ev'.op = "route" =>
       /\ ~ev'.threw
       /\ isConnected' = isConnected
       /\ (\E r \in Receivers(ev') : Throws(recs, r, "received"))
            => Matching(ev'.ident) \subseteq Receivers(ev')]_vars

\* C15: with packet-loss rate 1 no injected message is routed (it reaches no
\* subscription and leaves no trace in the history), with rate 0 every
\* injected message is routed (handed to the registry, and to the record
\* found there)
C15_PacketLossExtremes ==
  [][(Due /\ Head(timers).kind = "incoming" /\ timers' = Tail(timers)) =>
       LET t == Head(timers)
           subscription == Routed(t.ident, t.data) IN
       /\ options.packetLoss = 100 =>
            (ev'.op = "drop" /\ ev'.calls = <<>> /\ messageHistory' = messageHistory)
       /\ options.packetLoss = 0 =>
            /\ ev'.op = "route"
            /\ ev'.ident = t.ident
            /\ subscription # 0 => ev'.calls = CallsOf(recs, subscription, "received")]_vars

\* C15 witness: at rate 1 a message for a registered record was dropped
C15_Witness ==
  /\ options.packetLoss = 100
  /\ ev.op = "drop"
  /\ FindByIdentifier(subscriptions, recs, ev.ident) # 0
  /\ recs[FindByIdentifier(subscriptions, recs, ev.ident)].isSubscribed

\* the transport of the consumer is open
Open == websocket # 0 /\ readyState[websocket] = "OPEN"

IsPing(text) == JSONParse(text).ok /\ JSONParse(text).value.type = "ping"

\* C14: a ping delivered by the transport is answered in the same step with
\* exactly one pong that echoes the ping's payload, and the message history is
\* left as it was: neither the ping nor the pong is recorded
C14_PingPong ==
  [][(Called({"message"}) /\ IsPing(ev'.text)) =>
       /\ ev'.sent = <<Pong(JSONParse(ev'.text).value.message)>>
       /\ messageHistory' = messageHistory]_vars

\* C16: connect() while the transport is open does nothing: the consumer keeps
\* its transport, no transport is created and none is scheduled to open (so no
\* further bookkeeping subscribe envelope goes out), nothing is sent or
\* recorded, and the consumer stays connected
C16_ConnectIdempotent ==
  [][(Called({"connect"}) /\ Open) =>
       /\ UNCHANGED <<websocket, readyState, timers, messageHistory, subscriptions, recs>>
       /\ ev'.sent = <<>>
       /\ isConnected /\ isConnected']_vars

\* C16 witness: connect() was called on a consumer whose transport was open
C16_Witness ==
  /\ ev.op = "connect"
  /\ Open
  /\ isConnected
  /\ nops > 0

\* the transports that are connecting or open
Live == {s \in 1..MaxSocks : readyState[s] \in {"CONNECTING", "OPEN"}}

\* C17: a consumer never has more than one transport that is connecting or open
C17_OneLiveTransport == Cardinality(Live) <= 1

\* C18: remove of a registered record deletes it from the registry and sends
\* one unsubscribe envelope exactly when the record was subscribed and the
\* transport is open; remove of a record that is not registered (a second
\* remove) changes nothing, sends nothing and invokes no callback
C18_RemoveIdempotent ==
  [][Called({"remove"}) =>
       LET r == ev'.rec IN
       IF r \in Range(subscriptions)
       THEN /\ subscriptions' = SelectSeq(subscriptions, LAMBDA x : x # r)
            /\ ev'.sent = IF recs[r].isSubscribed /\ Open
                          THEN <<Envelope("unsubscribe", recs[r].identifier, "")>> ELSE <<>>
       ELSE /\ UNCHANGED <<subscriptions, recs, messageHistory, timers, websocket, readyState, isConnected>>
            /\ ev'.sent = <<>>
            /\ ev'.calls = <<>>
            /\ ~ev'.threw]_vars

\* C18 witness: the only record was removed while subscribed on an open
\* transport (its unsubscribe envelope is in the history) and removed again
C18_Witness ==
  /\ ev.op = "remove"
  /\ ev.miss
  /\ ev.rec \notin Range(subscriptions)
  /\ ev.sent = <<>>
  /\ ev.calls = <<>>
  /\ \E i \in 1..Len(messageHistory) :
       messageHistory[i] = [type |-> "outgoing", data |-> Envelope("unsubscribe", recs[ev.rec].identifier, "")]

\* the fields of the channel an identifier was made from, whatever their order
Fields(identifier) == Range(identifier)

\* C19: identifiers made from channels that are field-for-field equal are the
\* same string, so a message injected for a channel reaches the (first)
\* record created for a channel with the same fields in another key order
C19_KeyOrder ==
  ev.op = "route" =>
    LET equal == SelectSeq(subscriptions, LAMBDA r : Fields(recs[r].identifier) = Fields(ev.ident)) IN
    /\ \A r \in Range(equal) : recs[r].identifier = ev.ident
    /\ equal # <<>> => Head(equal) \in Receivers(ev)

\* C20: a text of the transport that is not valid JSON is dropped: the handler
\* does not throw, no callback is invoked, nothing is sent or appended to the
\* history, and connection, registry and subscriptions stay as they were
C20_MalformedDropped ==
  [][(Called({"message"}) /\ ~JSONParse(ev'.text).ok) =>
       /\ ~ev'.threw
       /\ ev'.calls = <<>>
       /\ ev'.sent = <<>>
       /\ UNCHANGED <<messageHistory, isConnected, websocket, readyState, subscriptions, recs, timers>>]_vars

\* C20 witness: a malformed text arrived while a subscribed record was registered
C20_Witness ==
  /\ ev.op = "message"
  /\ ~JSONParse(ev.text).ok
  /\ ~ev.threw
  /\ \E r \in Range(subscriptions) : recs[r].isSubscribed /\ recs[r].callbacks.received > 0

\* C21: when the identifier of an inbound message matches no registered
\* record, the dispatch throws nothing, invokes no callback, emits the
\* unhandled-message signal and reports the message as not handled; and a
\* dispatch that reports a message as handled has invoked a received callback
\* that ran to completion.
C21_UnmatchedUnhandled ==
  ev.op = "route" =>
    /\ Matching(ev.ident) = {} =>
          ~ev.threw /\ ev.calls = <<>> /\ ev.signal /\ ev.ret = "false"
    /\ ev.ret = "true" => HandledCount(ev.calls) > 0

\* the step dispatched an event to the records
Dispatches == {"route", "connect", "disconnect", "simulateNetworkInterruption", "reconnect"}

EventOf(op) ==
  IF op = "route" THEN "received"
  ELSE IF op \in {"connect", "reconnect"} THEN "connected" ELSE "disconnected"

\* C23: a dispatch runs over a stable snapshot: even when a callback invoked
\* during it unsubscribes records, every record that was registered when the
\* dispatch began (and, for a message, matches its identifier) has each of its
\* callbacks for the event invoked exactly once.
C23_StableSnapshot ==
  [][ev'.op \in Dispatches =>
       \A r \in Range(subscriptions) :
          (ev'.op = "route" => recs[r].identifier = ev'.ident) =>
            \A n \in 1..recs[r].callbacks[EventOf(ev'.op)] :
               Cardinality({i \in 1..Len(ev'.calls) :
                              ev'.calls[i] = [Call(r, EventOf(ev'.op)) EXCEPT !.n = n]}) = 1]_vars

\* C24: the message history is append-only between clears: a step other than
\* clearMessageHistory keeps every recorded entry with its content at its
\* position; getMessageHistory returns the entries in recording order, and
\* pushing onto the array it returned leaves the log as it was; after
\* clearMessageHistory the history is empty.
C24_HistoryAppendOnly ==
  [][/\ Called({"clearMessageHistory"}) => messageHistory' = <<>>
     /\ ~Called({"clearMessageHistory"}) =>
          /\ Len(messageHistory') >= Len(messageHistory)
          /\ SubSeq(messageHistory', 1, Len(messageHistory)) = messageHistory
     /\ Called({"getMessageHistory"}) =>
          ev'.hist = messageHistory /\ messageHistory' = messageHistory]_vars

\* getMessageHistory returned a history of an outgoing and an incoming entry
C24_Witness ==
  /\ ev.op = "getMessageHistory"
  /\ Len(ev.hist) >= 2
  /\ \E i, j \in 1..Len(ev.hist) : i < j /\ ev.hist[i].type = "outgoing" /\ ev.hist[j].type = "incoming"
  /\ messageHistory = ev.hist

\* C25: unsubscribed is a terminal state: once a record has been removed from
\* the registry its connected flag is false in every later state, and perform
\* or send on it raises an error and transmits nothing.
C25_UnsubscribedTerminal ==
  [][\A r \in 1..Len(recs) :
       r \notin Range(subscriptions) =>
         /\ ~recs'[r].isSubscribed
         /\ Called({"perform", "send"}) /\ ev'.rec = r => ev'.threw /\ ev'.sent = <<>>]_vars

\* the text is a reject_subscription envelope
IsReject(text) == JSONParse(text).ok /\ JSONParse(text).value.type = "reject_subscription"

\* record r has sent its subscribe envelope and awaits the answer
Subscribing(r) == Pending(timers, "confirm", r) \/ Pending(timers, "confirmWS", r)

\* C26: when a reject_subscription envelope arrives for the identifier of a
\* subscribing record, the record's rejected callbacks are invoked, the record
\* stays in the registry, and it is left in a state that accepts no received
\* dispatch: not connected.
C26_RejectInvokesRejected ==
  [][Called({"message"}) /\ IsReject(ev'.text) =>
       \A r \in Matching(JSONParse(ev'.text).value.identifier) :
          Subscribing(r) =>
            /\ Call(r, "rejected") \in Range(ev'.calls)
            /\ r \in Range(subscriptions')
            /\ ~recs'[r].isSubscribed]_vars

\* C29: subscription.send on a record that is not confirmed (not yet
\* subscribed, or already unsubscribed) transmits nothing, and the caller can
\* tell the drop from a successful send: the call throws or returns a result.
C29_SendOnUnconfirmed ==
  [][Called({"send"}) /\ ~Confirmed(ev'.rec) =>
       /\ ev'.sent = <<>>
       /\ ev'.threw \/ ev'.ret # "undefined"]_vars

\* the subscribe envelopes the history holds for an identifier
SubscribeEnvelopes(identifier) ==
  {i \in 1..Len(messageHistory) :
     /\ messageHistory[i].type = "outgoing"
     /\ "command" \in DOMAIN messageHistory[i].data
     /\ messageHistory[i].data.command = "subscribe"
     /\ messageHistory[i].data.identifier = identifier}

\* C27: every subscription created on a connected consumer and not removed
\* eventually reaches the confirmed state, with exactly one subscribe envelope
\* sent for it and its connected callback invoked.  (Checked for a consumer
\* that records what it writes, and as long as no other record has the same
\* identifier: the history then holds the envelopes of this record alone.)
C27_EventuallyConfirmed ==
  \A r \in 1..MaxRecs :
     (/\ ev.op = "create" /\ ev.rec = r
      /\ isConnected /\ options.messageHistory)
     ~> (\/ r \notin Range(subscriptions)
         \/ \E x \in 1..Len(recs) : x # r /\ recs[x].identifier = recs[r].identifier
         \/ /\ ev.op = "confirm" /\ ev.rec = r
            /\ Call(r, "connected") \in Range(ev.calls)
            /\ Cardinality(SubscribeEnvelopes(recs[r].identifier)) = 1)

\* C28: disconnectActionCable / MockActionCable.disconnectAll disconnects every
\* consumer created since mocking began, several consumers of one url and
\* consumers made by createActionCableConsumer included: no consumer is
\* connected after the call.
C28_DisconnectsEveryConsumer ==
  [][Called({"disconnectAll", "disconnectActionCable"}) =>
       \A c \in 1..Len(created') : ~created'[c].isConnected]_vars

\* C30: after consumer.disconnect(), consumer.connected is false and stays
\* false in every state until connect() is called again.
C30_DisconnectedUntilConnect == ev.off => ~isConnected

\* C31: after forceActionCableConnection consumer.connected is true, and a
\* message sent with sendActionCableMessageImmediately / sendToChannel on the
\* consumer so connected is written to the transport, and recorded as sent
\* when the history is kept, whether or not the transport has opened.
\* (Stated for the calls that return.)
C31_ForcedConnectionSends ==
  [][/\ Called({"forceActionCableConnection"}) /\ ~ev'.threw => isConnected'
     /\ Called({"sendActionCableMessageImmediately", "sendToChannel"}) /\ ~ev'.threw /\ isConnected =>
          /\ ev'.sent # <<>>
          /\ options.messageHistory => Len(messageHistory') = Len(messageHistory) + 1]_vars

\* C32: each time a transport opens, the consumer becomes connected and exactly
\* one subscribe envelope for the reserved ConnectionChannel identifier is
\* written on that transport, ahead of every other envelope on it (a
\* transport takes no envelope before it is open).
C32_OpenSubscribesConnectionChannel ==
  [][ev'.op = "open" =>
       /\ isConnected'
       /\ websocket = Head(timers).sock
       /\ ev'.sent = <<Envelope("subscribe", ConnectionChannel, "")>>]_vars

\* C33: when the timer of an interruption fires, it calls connect() unless the
\* reconnect option was false: with false it leaves the transport and the
\* connected flag as they were, so a disconnected consumer stays disconnected;
\* with true or with the option left out it creates a new transport that will
\* open (unless one is open already)
C33_ReconnectUnlessFalse ==
  [][ev'.op = "reconnect" =>
       LET t == Head(timers) IN
       IF t.data = "false"
       THEN /\ UNCHANGED <<websocket, readyState, isConnected>>
            /\ timers' = Tail(timers)
       ELSE \/ ConnectReturns(websocket, readyState)
            \/ /\ readyState'[websocket'] = "CONNECTING"
               /\ \E i \in 1..Len(timers') : timers'[i].kind = "sockOpen" /\ timers'[i].sock = websocket']_vars

\* the timer of an interruption without the reconnect option has fired and a
\* new transport is connecting
C33_Witness ==
  /\ ev.op = "reconnect"
  /\ ev.arg = "undefined"
  /\ websocket # 0
  /\ readyState[websocket] = "CONNECTING"

\* C34: a disconnect() called while the reconnect timer of an interruption is
\* pending cancels it: after the call no timer that will call connect() for the
\* interruption is left
C34_DisconnectCancelsReconnect ==
  [][Called({"disconnect"}) =>
       ~\E i \in 1..Len(timers') : timers'[i].kind = "reconnect" /\ Reconnects(timers'[i].data)]_vars

\* C35: the promise of simulateConversation resolves only after every message
\* was sent or routed: when the step of the last message resolves it and that
\* message is incoming, the message is not still waiting to be routed
C35_ResolvesAfterLastMessage ==
  [][(ev'.resolved /\ ev'.arg = "incoming") =>
       ~\E i \in 1..Len(timers') : timers'[i].kind = "incoming"]_vars

\* C36: with a fixed latency and no packet loss no injected message is dropped,
\* and the message a step routes is the earliest injected of those waiting, has
\* waited for the whole latency, leaves the queue (it is routed once) and
\* invokes each received function of the record it is routed to once
C36_RoutedInInjectionOrder ==
  [][/\ options.packetLoss = 0 => ev'.op # "drop"
     /\ ev'.op = "route" =>
          LET t == Head(timers) IN
          /\ \A i \in 1..Len(timers) : timers[i].kind = "incoming" => t.seq <= timers[i].seq
          /\ t.dur = options.latency /\ t.left = 0
          /\ timers' = Tail(timers)
          /\ ~\E i \in 1..Len(timers') : timers'[i].kind = "incoming" /\ timers'[i].seq = t.seq
          /\ ev'.rec # 0 => ev'.calls = <<Call(ev'.rec, "received")>>]_vars

\* a message injected with a latency was routed to a subscriber while a later
\* one still waits
C36_Witness ==
  /\ ev.op = "route"
  /\ options.latency > 0
  /\ ev.calls # <<>>
  /\ \E i \in 1..Len(timers) : timers[i].kind = "incoming"

\* C37: an inbound data message whose identifier matches a subscribed record
\* invokes the record's received functions, whatever JSON value the payload is
C37_FalsyPayloadDelivered ==
  [][(ev'.op = "route" /\ ev'.rec # 0 /\ recs[ev'.rec].isSubscribed) =>
       ev'.calls = CallsOf(recs, ev'.rec, "received")]_vars

\* C38: unsubscribing or removing a record whose subscription was never
\* confirmed (its confirmation is still to come) invokes no disconnected function
C38_DisconnectedOnlyIfConfirmed ==
  [][\A r \in 1..Len(recs) :
       (Called({"unsubscribe", "remove"}) /\ ev'.rec = r /\ Subscribing(r)) => ev'.calls = <<>>]_vars

C40_ReadyStateForward ==
  [][\A s \in 1..MaxSocks :
       (impl = "ws" /\ readyState[s] \in {"CLOSING", "CLOSED"}) => readyState'[s] # "OPEN"]_vars

====
